---- MODULE Spec2Model ----
(***************************************************************************)
(* Rate-limited follow scheduler of twagent.                               *)
(*                                                                         *)
(*   TwitterFollower  (my_twitter_api_v3/follows/follow_system.py)         *)
(*   TwikitFollower   (my_twitter_api_v3/follows/twikit_follower.py)       *)
(*                                                                         *)
(* Times are whole seconds counted from the midnight that starts day 0.    *)
(* The clock is read by datetime.now(); it advances while the follower     *)
(* sleeps, while the performer runs and while the caller is busy between   *)
(* two calls.  It never goes backwards.                                    *)
(***************************************************************************)
EXTENDS Integers, Sequences, FiniteSets, TLC

----------------------------------------------------------------------------
(* Program constants *)

\* timedelta(minutes=1)
Minute == 60
\* timedelta(days=1)
Day == 86400
\* random.uniform(0, 2): upper end of the jitter of TwikitFollower
JitterMax == 2
\* time.sleep(wait_time + 1): the one second buffer
Buffer == 1
\* Optional[datetime] = None
None == -1
\* rate_limits.get("follows_per_minute", 15), .get("follows_per_day", 400),
\* .get("delay_between_follows", 4); safety.get("min_delay_between_follows", 2)
DefaultPerMinute == 15
DefaultPerDay == 400
DefaultDelay == 4
DefaultMinDelay == 2
\* safety.get("max_follows_per_page", 20)
DefaultMaxFollowsPerPage == 20
\* if consecutive_empty_refreshes >= 3
EmptyRefreshLimit == 3
\* retry.max_attempts and retry.delay_on_error, as _setup_rate_limits stores
\* them: no other line of either class reads them
max_attempts == 3
delay_on_error == 10

----------------------------------------------------------------------------
(* Bounds of the model *)

\* largest quota value read from config.json
MaxQuota == 2
\* number of follow_user calls the caller of TwitterFollower makes
MaxCalls == 3
\* length of users_to_follow handed to follow_collected_users
MaxUsers == 3
\* coroutines that call follow_user on the shared follower, and the calls
\* each of them makes
MaxCoroutines == 2
MaxCoCalls == 2
\* ThreadPoolExecutor(max_workers=5)
max_workers == 5
\* batches of users handed to the pool
MaxBatches == 3
\* Browser objects and TwitterBrowserSession objects of one program run
MaxBrowsers == 2
MaxSessions == 3
\* largest follow_goal and max_refreshes given to XFollowerAutomation
XMaxGoal == 2
XMaxRefreshes == 4
\* largest value config.json holds for a key
MaxConfigValue == 2
\* get_follow_status calls made in a row
MaxStatusCalls == 2
\* rate-limit sleeps followed within one admission check: the depth at which
\* the recursion of _check_rate_limits is cut off by the interpreter
MaxWaits == 2

\* the clock at construction: the middle of a minute, two seconds before
\* midnight
StartTimes == {30, Day - 2}
\* time taken by the performer
Elapse == {0, 2, 61}
\* time the caller spends between two calls of follow_user
Between == {0, 61}
\* time the rate-limit sleep takes beyond what was asked
Oversleep == {0, 1}
\* rate_limits.delay_between_follows values read from config.json
Delays == {0, 4}

Variants == {"TwitterFollower", "TwikitFollower"}

----------------------------------------------------------------------------
(* Users collected by collect_users_to_follow: dicts with an id and the     *)
(* target they were found under.  The same id can be found under two        *)
(* targets; the two dicts are then different list elements.                 *)

Targets == {"a", "b"}

User(i) == [id |-> i, source_account |-> "a"]

SameIdOtherTarget(i) == [id |-> i, source_account |-> "b"]

UserList(n) == [i \in 1..n |-> User(i)]

UserListWithRepeat(n) == [i \in 1..n |-> IF i = n THEN SameIdOtherTarget(1) ELSE User(i)]

UserLists == {UserList(n) : n \in 0..MaxUsers} \cup {UserListWithRepeat(n) : n \in 2..MaxUsers}

----------------------------------------------------------------------------
VARIABLES
    \* class and configuration
    variant, follows_per_minute, follows_per_day, delay_between_follows,
    \* RateLimitTracker
    follows_today, follows_this_minute, last_follow_time,
    minute_reset_time, day_reset_time,
    \* the clock
    now,
    \* control
    pc, wait_time, calls,
    \* TwikitFollower
    users_to_follow, followed_users, target_followed,
    \* follow_collected_users locals
    max_users, users_to_process, it, user, followed, failed, batch_result,
    \* history
    outcome, admit_time, rl_sleeps, sp_sleeps, follow_log, pre_action,
    performer_calls, performer_fails, submitted, daily_denied_until,
    minute_reset_at, collected, attempted,
    \* the snapshots get_follow_status returned since the last batch started
    statuses

\* construction from config.json (_load_config, _setup_rate_limits)
VARIABLES config_file, cfg_keys, cfg_values, loaded_keys, construction

\* XFollowerAutomation
VARIABLES
    follow_goal, max_refreshes, max_follows_per_page,
    follows_completed, refresh_count, results_status,
    \* locals of run and _process_followers_page
    consecutive_empty_refreshes, follows_this_page, more_available, page_left,
    \* control
    xpc,
    \* history: follows really made in the round going on and in each of the
    \* last three rounds over; whether _refresh_page has returned False
    round_follows, last_rounds, refresh_failed

config == <<variant, follows_per_minute, follows_per_day, delay_between_follows>>
tracker == <<follows_today, follows_this_minute, last_follow_time,
             minute_reset_time, day_reset_time>>
twikit == <<users_to_follow, followed_users, target_followed>>
batch == <<max_users, users_to_process, it, user, followed, failed, batch_result>>
history == <<outcome, admit_time, rl_sleeps, sp_sleeps, follow_log, pre_action,
             performer_calls, performer_fails, submitted, daily_denied_until,
             minute_reset_at, attempted>>
\* the follower and its caller
follower == <<config, collected, tracker, now, pc, wait_time, calls, twikit, batch, history,
              statuses>>
loading == <<config_file, cfg_keys, cfg_values, loaded_keys, construction>>
\* TwitterBrowserSession (twitter_api.py) and the browsers of its callers
VARIABLES
    browser_state,    \* per Browser object: "absent", "open" or "closed"
    browser_owner,    \* who ran Browser(): "nobody", "caller" or "session"
    session_closes,   \* per Browser object: close() calls made by __aexit__
    sessions          \* the TwitterBrowserSession objects made so far, the
                      \* last one the one in use

\* get_data.py: the worker threads of the pool and 001_saved_tweets.json
VARIABLES
    saved_tweets,     \* the list held by 001_saved_tweets.json
    file_lock,        \* the batch whose thread holds file_lock, or None
    batch_at,         \* per batch: where process_user_batch stands
    new_data,         \* per batch: the items the API returned
    existing_dict,    \* per batch: the local of that name, in dict order
    writes            \* the batches in the order of their writes

\* follow_user coroutines on the shared follower instance
VARIABLES
    co_at,            \* per coroutine: where its follow_user call stands
    co_calls          \* per coroutine: follow_user calls it has made

xfa == <<follow_goal, max_refreshes, max_follows_per_page, follows_completed,
         refresh_count, results_status, consecutive_empty_refreshes, follows_this_page,
         more_available, page_left, xpc, round_follows, last_rounds, refresh_failed>>
\* what a run of the follower leaves alone
tbs == <<browser_state, browser_owner, session_closes, sessions>>
data == <<saved_tweets, file_lock, batch_at, new_data, existing_dict, writes>>
race == <<co_at, co_calls>>
others == <<loading, xfa, tbs, data, race>>
\* what construction leaves alone
besides_loading == <<xfa, tbs, data, race>>
\* what XFollowerAutomation leaves alone
besides_xfa == <<loading, tbs, data, race>>
\* what a TwitterBrowserSession and its caller leave alone
besides_tbs == <<loading, xfa, data, race>>
\* what get_data.py leaves alone
besides_data == <<loading, xfa, tbs, race>>
\* what the coroutines leave alone: all but the tracker and the clock
besides_race == <<loading, xfa, tbs, data, config, collected, pc, wait_time, calls,
                  twikit, batch, history, statuses>>
vars == <<follower, others>>

----------------------------------------------------------------------------
(* _check_rate_limits *)

\* now.replace(hour=0, minute=0, second=0, microsecond=0) + timedelta(days=1)
NextMidnight(t) == (t - (t % Day)) + Day

\* the per-minute window taken from the time of the check
NextMinuteFromNow(t) == t + Minute

\* now.replace(second=0, microsecond=0) + timedelta(minutes=1)
NextMinute(t) == (t - (t % Minute)) + Minute

\* <= for >=
DayResetDueInverted(t) == day_reset_time = None \/ t <= day_reset_time

\* the daily reset compared with the per-minute window's end
DayResetDueOnMinute(t) == day_reset_time = None \/ t >= minute_reset_time

DayResetDue(t) == day_reset_time = None \/ t >= day_reset_time

\* > for >=
MinuteResetDueStrict(t) == minute_reset_time = None \/ t > minute_reset_time

MinuteResetDue(t) == minute_reset_time = None \/ t >= minute_reset_time

\* > for >=
DailyLimitPassed(today) == today > follows_per_day

DailyLimitReached(today) == today >= follows_per_day

\* > for >=
MinuteLimitPassed(this_minute) == this_minute > follows_per_minute

MinuteLimitReached(this_minute) == this_minute >= follows_per_minute

\* the per-minute test made before the daily one
CheckVerdictMinuteFirst(today, this_minute) ==
    IF MinuteLimitReached(this_minute) THEN "wait"
    ELSE IF DailyLimitReached(today) THEN "denied"
    ELSE "granted"

\* the three ways one pass of the check ends
CheckVerdict(today, this_minute) ==
    IF DailyLimitReached(today) THEN "denied"
    ELSE IF MinuteLimitReached(this_minute) THEN "wait"
    ELSE "granted"

----------------------------------------------------------------------------
(* list helpers *)

\* list.remove(x): drops the first element equal to x
RECURSIVE Remove(_, _)
Remove(s, x) ==
    IF s = <<>> THEN <<>>
    ELSE IF Head(s) = x THEN Tail(s)
    ELSE <<Head(s)>> \o Remove(Tail(s), x)

InList(s, x) == \E i \in DOMAIN s : s[i] = x

\* no slice taken
SliceAll(s, n) == s

\* users_to_process[:max_users]
Slice(s, n) == SubSeq(s, 1, IF n < Len(s) THEN n ELSE Len(s))

\* the loop walking users_to_follow whether or not a slice was taken
WalkedLive == users_to_follow

\* the list the for loop of follow_collected_users walks: users_to_follow
\* itself when max_users is None, the slice taken at the start otherwise
Walked == IF max_users = None THEN users_to_follow ELSE users_to_process

----------------------------------------------------------------------------
\* the follower as __init__ leaves it, whatever the configuration read
Constructed ==
    /\ follows_today = 0
    /\ follows_this_minute = 0
    /\ last_follow_time = None
    /\ minute_reset_time = None
    /\ day_reset_time = None
    /\ pc = "idle"
    /\ wait_time = 0
    /\ calls = 0
    /\ followed_users = {}
    /\ target_followed = [t \in Targets |-> {}]
    /\ max_users = None
    /\ users_to_process = <<>>
    /\ it = 0
    /\ user = User(0)
    /\ followed = 0
    /\ failed = 0
    /\ batch_result = [followed |-> 0, failed |-> 0, skipped |-> 0]
    /\ outcome = "none"
    /\ admit_time = None
    /\ rl_sleeps = 0
    /\ sp_sleeps = 0
    /\ follow_log = <<>>
    /\ pre_action = <<0, 0, None>>
    /\ performer_calls = 0
    /\ performer_fails = 0
    /\ submitted = 0
    /\ daily_denied_until = None
    /\ minute_reset_at = None
    /\ attempted = <<>>
    /\ statuses = <<>>

\* construction is over: config.json was read and held what the follower has
LoadingDone ==
    /\ config_file = "parsed"
    /\ cfg_keys = {"follows_per_minute", "follows_per_day", "delay"}
    /\ cfg_values = [k \in cfg_keys |->
                        CASE k = "follows_per_minute" -> follows_per_minute
                          [] k = "follows_per_day" -> follows_per_day
                          [] k = "delay" -> delay_between_follows]
    /\ loaded_keys = cfg_keys
    /\ construction = "instance"

\* no XFollowerAutomation at work
XfaIdle ==
    /\ follow_goal = 0
    /\ max_refreshes = 0
    /\ max_follows_per_page = 0
    /\ follows_completed = 0
    /\ refresh_count = 0
    /\ results_status = "Not Started"
    /\ consecutive_empty_refreshes = 0
    /\ follows_this_page = 0
    /\ more_available = FALSE
    /\ page_left = 0
    /\ xpc = "new"
    /\ round_follows = 0
    /\ last_rounds = <<>>
    /\ refresh_failed = FALSE

Browsers == 1..MaxBrowsers

\* no Browser and no TwitterBrowserSession was made
SessionsIdle ==
    /\ browser_state = [b \in Browsers |-> "absent"]
    /\ browser_owner = [b \in Browsers |-> "nobody"]
    /\ session_closes = [b \in Browsers |-> 0]
    /\ sessions = <<>>

Batches == 1..MaxBatches
\* the ids of the items the API returns
Ids == {1, 2}

\* get_data.py was not run
DataIdle ==
    /\ saved_tweets = <<>>
    /\ file_lock = None
    /\ batch_at = [b \in Batches |-> "queued"]
    /\ new_data = [b \in Batches |-> <<>>]
    /\ existing_dict = [b \in Batches |-> <<>>]
    /\ writes = <<>>

Coroutines == 1..MaxCoroutines

\* no coroutine has called follow_user
RaceIdle ==
    /\ co_at = [c \in Coroutines |-> "new"]
    /\ co_calls = [c \in Coroutines |-> 0]

RestIdle == SessionsIdle /\ DataIdle /\ RaceIdle

OthersIdle == LoadingDone /\ XfaIdle /\ RestIdle

\* no follower at work: the parameters are the defaults, nothing was followed
FollowerIdle ==
    /\ variant = "XFollowerAutomation"
    /\ follows_per_minute = DefaultPerMinute
    /\ follows_per_day = DefaultPerDay
    /\ delay_between_follows = DefaultMinDelay
    /\ now = 0
    /\ users_to_follow = <<>>
    /\ collected = users_to_follow
    /\ Constructed

Init ==
    /\ variant \in Variants
    /\ follows_per_minute \in 0..MaxQuota
    /\ follows_per_day \in 0..MaxQuota
    /\ delay_between_follows \in Delays
    /\ now \in StartTimes
    /\ users_to_follow \in (IF variant = "TwikitFollower" THEN UserLists ELSE {<<>>})
    /\ collected = users_to_follow
    /\ Constructed
    /\ OthersIdle

----------------------------------------------------------------------------
(* What follow_user's caller does with the returned bool.                   *)
(* TwitterFollower: follow_example.py, the loop just goes on.               *)
(* TwikitFollower: follow_collected_users counts it and removes the user    *)
(* from users_to_follow "regardless of success to avoid retrying".          *)

CountFollowed(success) == IF success THEN followed + 1 ELSE followed

CountFailed(success) == IF success THEN failed ELSE failed + 1

Return(success) ==
    IF variant = "TwikitFollower"
    THEN /\ followed' = CountFollowed(success)
         /\ failed' = CountFailed(success)
         /\ users_to_follow' = IF InList(users_to_follow, user)
                               THEN Remove(users_to_follow, user)
                               ELSE users_to_follow
         /\ pc' = "loop"
    ELSE /\ UNCHANGED <<followed, failed, users_to_follow>>
         /\ pc' = "idle"

\* a new follow_user call starts: nothing of the previous request is left
NewRequest ==
    /\ calls' = calls + 1
    /\ outcome' = "none"
    /\ admit_time' = None
    /\ rl_sleeps' = 0
    /\ sp_sleeps' = 0

----------------------------------------------------------------------------
(* follow_example.py: the caller of TwitterFollower.follow_user; d is the   *)
(* time it spent since the previous call returned.                          *)

CallFollowUser(d) ==
    /\ variant = "TwitterFollower"
    /\ pc = "idle"
    /\ calls < MaxCalls
    /\ now' = now + d
    /\ pc' = "check"
    /\ NewRequest
    /\ UNCHANGED <<others, config, collected, statuses, tracker, wait_time, twikit, batch, follow_log, pre_action,
                   performer_calls, performer_fails, submitted, daily_denied_until,
                   minute_reset_at, attempted>>

----------------------------------------------------------------------------
(* TwikitFollower.follow_collected_users(max_users) *)

StartBatch(m) ==
    /\ variant = "TwikitFollower"
    /\ pc = "idle"
    /\ IF users_to_follow = <<>>
       THEN /\ batch_result' = [followed |-> 0, failed |-> 0, skipped |-> 0]
            /\ pc' = "batch_done"
            /\ UNCHANGED <<max_users, users_to_process, it, followed, failed, submitted>>
       ELSE /\ max_users' = m
            \* with max_users None, users_to_process is users_to_follow itself
            /\ users_to_process' = IF m = None THEN <<>> ELSE Slice(users_to_follow, m)
            /\ submitted' = IF m = None THEN Len(users_to_follow)
                            ELSE Len(Slice(users_to_follow, m))
            /\ it' = 0
            /\ followed' = 0
            /\ failed' = 0
            /\ pc' = "loop"
            /\ UNCHANGED batch_result
    /\ statuses' = <<>>
    /\ UNCHANGED <<others, config, collected, tracker, now, wait_time, calls, twikit, user, outcome,
                   admit_time, rl_sleeps, sp_sleeps, follow_log, pre_action,
                   performer_calls, performer_fails, daily_denied_until, minute_reset_at, attempted>>

\* the iterator staying on a user whose follow failed
AdvanceUnlessFailed(i) == IF outcome = "failed" THEN i ELSE i + 1

\* the list iterator moves on by one after every element, whatever
\* follow_user returned for it
Advance(i) == i + 1

\* follow_user started and not awaited: the loop goes on while the performer
\* is still running
LoopReadyWithoutAwait == pc \in {"loop", "acting"}

\* success = await self.follow_user(user): the loop goes on when the call
\* has returned
LoopReady == pc = "loop"

\* for user in users_to_process: the list iterator hands out element it
\* (counted from 0) of the list as it is now
BatchNext ==
    /\ LoopReady
    /\ Advance(it) <= Len(Walked)
    /\ user' = Walked[Advance(it)]
    /\ it' = Advance(it)
    /\ IF Walked[Advance(it)].id \in followed_users
       THEN /\ pc' = "loop"
            /\ UNCHANGED <<calls, outcome, admit_time, rl_sleeps, sp_sleeps>>
       ELSE /\ pc' = "check"
            /\ NewRequest
    /\ UNCHANGED <<others, config, collected, statuses, tracker, now, wait_time, twikit, max_users, users_to_process,
                   followed, failed, batch_result, follow_log, pre_action,
                   performer_calls, performer_fails, submitted, daily_denied_until,
                   minute_reset_at, attempted>>

Skipped == Len(Walked) - followed - failed

BatchReturn ==
    /\ LoopReady
    /\ Advance(it) > Len(Walked)
    /\ batch_result' = [followed |-> followed, failed |-> failed, skipped |-> Skipped]
    /\ pc' = "batch_done"
    /\ UNCHANGED <<others, config, collected, statuses, tracker, now, wait_time, calls, twikit, max_users,
                   users_to_process, it, user, followed, failed, history>>

----------------------------------------------------------------------------
(* One pass of _check_rate_limits, up to its return or its time.sleep.      *)

CheckRateLimits ==
    /\ pc = "check"
    /\ LET today == IF DayResetDue(now) THEN 0 ELSE follows_today
           day_end == IF DayResetDue(now) THEN NextMidnight(now) ELSE day_reset_time
           this_minute == IF MinuteResetDue(now) THEN 0 ELSE follows_this_minute
           minute_end == IF MinuteResetDue(now) THEN NextMinute(now) ELSE minute_reset_time
           verdict == CheckVerdict(today, this_minute)
       IN  /\ follows_today' = today
           /\ day_reset_time' = day_end
           /\ follows_this_minute' = this_minute
           /\ minute_reset_time' = minute_end
           /\ minute_reset_at' = IF MinuteResetDue(now) THEN now ELSE minute_reset_at
           /\ CASE verdict = "denied" ->
                     /\ outcome' = "denied"
                     /\ daily_denied_until' = day_end
                     /\ Return(FALSE)
                     /\ UNCHANGED <<wait_time, admit_time>>
                [] verdict = "wait" ->
                     /\ wait_time' = minute_end - now
                     /\ pc' = "rl_sleep"
                     /\ UNCHANGED <<outcome, daily_denied_until, admit_time,
                                    followed, failed, users_to_follow>>
                [] verdict = "granted" ->
                     /\ admit_time' = now
                     /\ pc' = "spacing"
                     /\ UNCHANGED <<outcome, daily_denied_until, wait_time,
                                    followed, failed, users_to_follow>>
    /\ UNCHANGED <<others, config, collected, statuses, last_follow_time, now, calls, followed_users, target_followed,
                   max_users, users_to_process, it, user, batch_result,
                   rl_sleeps, sp_sleeps, follow_log, pre_action, performer_calls,
                   performer_fails, submitted, attempted>>

\* time.sleep(wait_time + 1), then return self._check_rate_limits()
RateLimitSleep(o) ==
    /\ pc = "rl_sleep"
    /\ rl_sleeps < MaxWaits
    /\ now' = now + wait_time + Buffer + o
    /\ rl_sleeps' = rl_sleeps + 1
    /\ pc' = "check"
    /\ UNCHANGED <<others, config, collected, statuses, tracker, wait_time, calls, twikit, batch, outcome, admit_time,
                   sp_sleeps, follow_log, pre_action, performer_calls, performer_fails,
                   submitted, daily_denied_until, minute_reset_at, attempted>>

\* the recursion of _check_rate_limits has no base case of its own: when the
\* interpreter's recursion limit (MaxWaits here) is reached, the call after
\* the sleep raises RecursionError, which neither follow_user nor
\* follow_collected_users catches
CheckRaises ==
    /\ pc = "rl_sleep"
    /\ rl_sleeps >= MaxWaits
    /\ now' = now + wait_time + Buffer
    /\ pc' = "raised"
    /\ UNCHANGED <<others, config, collected, statuses, tracker, wait_time, calls, twikit, batch, history>>

----------------------------------------------------------------------------
(* _wait_between_follows: TwikitFollower adds random.uniform(0, 2),         *)
(* TwitterFollower waits the configured delay alone.                        *)

\* no randomization in either class
JittersNone == {0}

Jitters == IF variant = "TwikitFollower" THEN 0..JitterMax ELSE {0}

\* the comparison turned round: sleeps only when the delay has already passed
SpacingWaitWhenLate(j) ==
    IF last_follow_time = None THEN 0
    ELSE LET elapsed == now - last_follow_time
             total_delay == delay_between_follows + j
         IN  IF elapsed > total_delay THEN elapsed - total_delay ELSE 0

SpacingWait(j) ==
    IF last_follow_time = None THEN 0
    ELSE LET elapsed == now - last_follow_time
             total_delay == delay_between_follows + j
         IN  IF elapsed < total_delay THEN total_delay - elapsed ELSE 0

WaitBetweenFollows ==
    /\ pc = "spacing"
    /\ \E j \in Jitters :
          IF SpacingWait(j) > 0
          THEN /\ now' = now + SpacingWait(j)
               /\ sp_sleeps' = sp_sleeps + 1
          ELSE UNCHANGED <<now, sp_sleeps>>
    /\ pre_action' = <<follows_today, follows_this_minute, last_follow_time>>
    /\ pc' = "acting"
    /\ UNCHANGED <<others, config, collected, statuses, tracker, wait_time, calls, twikit, batch, outcome, admit_time,
                   rl_sleeps, follow_log, performer_calls, performer_fails, submitted,
                   daily_denied_until, minute_reset_at, attempted>>

----------------------------------------------------------------------------
(* follow_user from the await of the performer (follow_single_account,      *)
(* follow_user_by_id) to its return; the performer takes d seconds and      *)
(* reports success or not (an exception in it is caught and reported as     *)
(* failure).                                                                *)

\* every attempt counted, successful or not
AccountTodayEveryAttempt(success) == follows_today + 1

AccountToday(success) == IF success THEN follows_today + 1 ELSE follows_today

\* the per-minute counter left as it is
AccountThisMinuteDropped(success) == follows_this_minute

AccountThisMinute(success) ==
    IF success THEN follows_this_minute + 1 ELSE follows_this_minute

AccountLastFollow(success, t) == IF success THEN t ELSE last_follow_time

PerformAction(d, success) ==
    /\ pc = "acting"
    /\ now' = now + d
    /\ follows_today' = AccountToday(success)
    /\ follows_this_minute' = AccountThisMinute(success)
    /\ last_follow_time' = AccountLastFollow(success, now + d)
    /\ IF success /\ variant = "TwikitFollower"
       THEN /\ followed_users' = followed_users \cup {user.id}
            /\ target_followed' =
                 IF user.source_account \in Targets
                 THEN [target_followed EXCEPT ![user.source_account] = @ \cup {user.id}]
                 ELSE target_followed
       ELSE UNCHANGED <<followed_users, target_followed>>
    /\ performer_calls' = performer_calls + 1
    /\ performer_fails' = IF success THEN performer_fails ELSE performer_fails + 1
    /\ follow_log' = IF success
                     THEN Append(follow_log, [admitted |-> admit_time, done |-> now + d])
                     ELSE follow_log
    /\ outcome' = IF success THEN "succeeded" ELSE "failed"
    /\ attempted' = IF variant = "TwikitFollower" THEN Append(attempted, user)
                     ELSE attempted
    /\ Return(success)
    /\ UNCHANGED <<others, config, collected, statuses, minute_reset_time, day_reset_time, wait_time, calls,
                   max_users, users_to_process, it, user, batch_result,
                   admit_time, rl_sleeps, sp_sleeps, pre_action, submitted,
                   daily_denied_until, minute_reset_at>>

----------------------------------------------------------------------------
(* TwikitFollower.get_follow_status, called by the workflows before and      *)
(* after a batch.                                                           *)

\* users_to_follow_count taken from what was collected
FollowStatusStale ==
    [rate_limits |-> [follows_today |-> follows_today,
                      follows_this_minute |-> follows_this_minute,
                      follows_per_day |-> follows_per_day,
                      follows_per_minute |-> follows_per_minute,
                      delay_between_follows |-> delay_between_follows],
     targets |-> [t \in Targets |-> Cardinality(target_followed[t])],
     users_to_follow_count |-> Len(collected),
     total_followed_count |-> Cardinality(followed_users)]

FollowStatus ==
    [rate_limits |-> [follows_today |-> follows_today,
                      follows_this_minute |-> follows_this_minute,
                      follows_per_day |-> follows_per_day,
                      follows_per_minute |-> follows_per_minute,
                      delay_between_follows |-> delay_between_follows],
     targets |-> [t \in Targets |-> Cardinality(target_followed[t])],
     users_to_follow_count |-> Len(users_to_follow),
     total_followed_count |-> Cardinality(followed_users)]

GetFollowStatus ==
    /\ variant = "TwikitFollower"
    /\ pc \in {"idle", "batch_done"}
    /\ Len(statuses) < MaxStatusCalls
    /\ statuses' = Append(statuses, FollowStatus)
    /\ UNCHANGED <<others, config, collected, tracker, now, pc, wait_time, calls, twikit, batch,
                   history>>

----------------------------------------------------------------------------
Next ==
    \/ \E d \in Between : CallFollowUser(d)
    \/ \E m \in {None} \cup (0..MaxUsers) : StartBatch(m)
    \/ BatchNext
    \/ BatchReturn
    \/ CheckRateLimits
    \/ \E o \in Oversleep : RateLimitSleep(o)
    \/ CheckRaises
    \/ WaitBetweenFollows
    \/ \E d \in Elapse, success \in BOOLEAN : PerformAction(d, success)
    \/ GetFollowStatus

Spec == Init /\ [][Next]_vars

----------------------------------------------------------------------------
(* The end-to-end scenario: TwitterFollower with a per-minute quota, a daily *)
(* quota as large as the number of requests, no delay between follows, a     *)
(* performer that always succeeds at once, a caller that calls follow_user   *)
(* for one request after the other without a pause, and sleeps that take     *)
(* exactly the time asked for: the clock moves in the follower's sleeps only.*)

\* per-minute quota and number of requests of the scenario
E2EPerMinute == 2
E2ERequests == 5

\* the clock at construction: any second of the first minute of a day or of
\* its last two minutes
E2EStarts == (0..(Minute - 1)) \cup ((Day - 2 * Minute)..(Day - 1))

InitE2E ==
    /\ variant = "TwitterFollower"
    /\ follows_per_minute = E2EPerMinute
    /\ follows_per_day = E2ERequests
    /\ delay_between_follows = 0
    /\ now \in E2EStarts
    /\ users_to_follow = <<>>
    /\ collected = users_to_follow
    /\ Constructed
    /\ OthersIdle

\* for account in accounts: await follower.follow_user(account)
E2ECall ==
    /\ pc = "idle"
    /\ calls < E2ERequests
    /\ pc' = "check"
    /\ NewRequest
    /\ UNCHANGED <<others, config, collected, statuses, tracker, now, wait_time, twikit, batch, follow_log,
                   pre_action, performer_calls, performer_fails, submitted,
                   daily_denied_until, minute_reset_at, attempted>>

NextE2E ==
    \/ E2ECall
    \/ CheckRateLimits
    \/ RateLimitSleep(0)
    \/ WaitBetweenFollows
    \/ PerformAction(0, TRUE)

SpecE2E == InitE2E /\ [][NextE2E]_vars

----------------------------------------------------------------------------
(* Construction: __init__ reads config.json (_load_config) and takes the     *)
(* throttling parameters from it (_setup_rate_limits, _load_safety_settings).*)

Classes == Variants \cup {"XFollowerAutomation"}

\* the keys of following.rate_limits; "delay" is delay_between_follows there
\* and following.safety.min_delay_between_follows for XFollowerAutomation
ConfigKeys == {"follows_per_minute", "follows_per_day", "delay"}

ConfigValues == -1..MaxConfigValue

Default(k) ==
    CASE k = "follows_per_minute" -> DefaultPerMinute
      [] k = "follows_per_day" -> DefaultPerDay
      [] k = "delay" -> IF variant = "XFollowerAutomation" THEN DefaultMinDelay
                        ELSE DefaultDelay

\* dict.get(k, default) on the loaded configuration
Get(k) == IF k \in loaded_keys THEN cfg_values[k] ELSE Default(k)

InitLoading ==
    /\ variant \in Classes
    /\ config_file \in {"absent", "unparsable", "parsed"}
    /\ cfg_keys \in (IF config_file = "parsed" THEN SUBSET ConfigKeys ELSE {{}})
    /\ cfg_values \in [cfg_keys -> ConfigValues]
    /\ loaded_keys = {}
    /\ construction = "new"
    /\ follows_per_minute = 0
    /\ follows_per_day = 0
    /\ delay_between_follows = 0
    /\ now = 0
    /\ users_to_follow = <<>>
    /\ collected = users_to_follow
    /\ Constructed
    /\ XfaIdle
    /\ RestIdle

\* _load_config: the two followers raise when the file is absent or not
\* JSON, XFollowerAutomation prints the error and goes on with {}
LoadConfig ==
    /\ construction = "new"
    /\ IF config_file = "parsed"
       THEN loaded_keys' = cfg_keys /\ construction' = "loaded"
       ELSE IF variant = "XFollowerAutomation"
            THEN loaded_keys' = {} /\ construction' = "loaded"
            ELSE loaded_keys' = loaded_keys /\ construction' = "raised"
    /\ UNCHANGED <<besides_loading, follower, config_file, cfg_keys, cfg_values>>

\* _setup_rate_limits, _load_safety_settings
SetupRateLimits ==
    /\ construction = "loaded"
    /\ follows_per_minute' = Get("follows_per_minute")
    /\ follows_per_day' = Get("follows_per_day")
    /\ delay_between_follows' = Get("delay")
    /\ construction' = "instance"
    /\ UNCHANGED <<besides_loading, variant, collected, tracker, now, pc, wait_time, calls, twikit, batch,
                   history, statuses, config_file, cfg_keys, cfg_values, loaded_keys>>

NextLoading ==
    \/ LoadConfig
    \/ SetupRateLimits

SpecLoading == InitLoading /\ [][NextLoading]_vars

----------------------------------------------------------------------------
(* XFollowerAutomation.run (x_follower_automation.py): the agents that       *)
(* navigate, click a follow button, scroll and refresh are the environment; *)
(* each returns a result or raises.                                         *)

InitXfa ==
    /\ FollowerIdle
    /\ LoadingDone
    /\ RestIdle
    /\ follow_goal \in 0..XMaxGoal
    /\ max_refreshes \in 0..XMaxRefreshes
    /\ max_follows_per_page \in {1, DefaultMaxFollowsPerPage}
    /\ follows_completed = 0
    /\ refresh_count = 0
    /\ results_status = "Not Started"
    /\ consecutive_empty_refreshes = 0
    /\ follows_this_page = 0
    /\ more_available = FALSE
    /\ page_left = 0
    /\ xpc = "new"
    /\ round_follows = 0
    /\ last_rounds = <<>>
    /\ refresh_failed = FALSE

\* the true follow counts of the last three rounds, the one just over included
RoundOver(n) ==
    LET all == Append(last_rounds, n)
    IN  IF Len(all) > EmptyRefreshLimit THEN Tail(all) ELSE all

\* run up to the end of _navigate_to_followers_page
XNavigate(ok) ==
    /\ xpc = "new"
    /\ IF ok
       THEN /\ results_status' = "Running"
            /\ xpc' = "loop"
       ELSE /\ results_status' = "Failed - Navigation Error"
            /\ xpc' = "done"
    /\ UNCHANGED <<besides_xfa, follower, follow_goal, max_refreshes, max_follows_per_page,
                   follows_completed, refresh_count, consecutive_empty_refreshes,
                   follows_this_page, more_available, page_left, round_follows,
                   last_rounds, refresh_failed>>

\* min(self.max_follows_per_page, self.follow_goal - self.follows_completed),
\* as range() takes it
MaxFollowsThisPage ==
    LET m == IF max_follows_per_page < follow_goal - follows_completed
             THEN max_follows_per_page ELSE follow_goal - follows_completed
    IN  IF m < 0 THEN 0 ELSE m

\* while self.follows_completed < self.follow_goal and
\*       self.refresh_count < self.max_refreshes
XLoopTest ==
    /\ xpc = "loop"
    /\ IF follows_completed < follow_goal /\ refresh_count < max_refreshes
       THEN /\ follows_this_page' = 0
            /\ round_follows' = 0
            /\ page_left' = MaxFollowsThisPage
            /\ xpc' = "page"
       ELSE /\ xpc' = "final"
            /\ UNCHANGED <<follows_this_page, round_follows, page_left>>
    /\ UNCHANGED <<besides_xfa, follower, follow_goal, max_refreshes, max_follows_per_page,
                   follows_completed, refresh_count, results_status,
                   consecutive_empty_refreshes, more_available, last_rounds,
                   refresh_failed>>

\* for _ in range(max_follows_this_page): the goal test, then the follow
\* agent is started
XStartFollow ==
    /\ xpc = "page"
    /\ page_left > 0
    /\ IF follows_completed >= follow_goal
       THEN /\ more_available' = FALSE
            /\ last_rounds' = RoundOver(round_follows)
            /\ xpc' = "after_page"
       ELSE /\ xpc' = "following"
            /\ UNCHANGED <<more_available, last_rounds>>
    /\ UNCHANGED <<besides_xfa, follower, follow_goal, max_refreshes, max_follows_per_page,
                   follows_completed, refresh_count, results_status,
                   consecutive_empty_refreshes, follows_this_page, page_left,
                   round_follows, refresh_failed>>

\* one follow counted twice
XCountFollowTwice(n) == n + 2

\* self.follows_completed += 1
XCountFollow(n) == n + 1

\* follow_agent.run returns: a follow was made, or no button was found
\* (break), or the agent raised (except: return 0, False)
XFollowResult(r) ==
    /\ xpc = "following"
    /\ CASE r = "success" ->
              /\ follows_this_page' = follows_this_page + 1
              /\ follows_completed' = XCountFollow(follows_completed)
              /\ round_follows' = round_follows + 1
              /\ page_left' = page_left - 1
              /\ xpc' = "page"
              /\ UNCHANGED <<more_available, last_rounds>>
         [] r = "nothing" ->
              /\ page_left' = 0
              /\ xpc' = "page"
              /\ UNCHANGED <<follows_this_page, follows_completed, round_follows,
                             more_available, last_rounds>>
         [] r = "exception" ->
              /\ follows_this_page' = 0
              /\ more_available' = FALSE
              /\ last_rounds' = RoundOver(round_follows)
              /\ xpc' = "after_page"
              /\ UNCHANGED <<follows_completed, round_follows, page_left>>
    /\ UNCHANGED <<besides_xfa, follower, follow_goal, max_refreshes, max_follows_per_page,
                   refresh_count, results_status, consecutive_empty_refreshes,
                   refresh_failed>>

\* the scroll agent after the loop, and the return of
\* _process_followers_page
XScroll(ok) ==
    /\ xpc = "page"
    /\ page_left = 0
    /\ IF ok
       THEN /\ more_available' = (follows_this_page > 0)
            /\ UNCHANGED follows_this_page
       ELSE /\ more_available' = FALSE
            /\ follows_this_page' = 0
    /\ last_rounds' = RoundOver(round_follows)
    /\ xpc' = "after_page"
    /\ UNCHANGED <<besides_xfa, follower, follow_goal, max_refreshes, max_follows_per_page,
                   follows_completed, refresh_count, results_status,
                   consecutive_empty_refreshes, page_left, round_follows, refresh_failed>>

\* more_available: the loop goes round without a refresh
XContinue ==
    /\ xpc = "after_page"
    /\ more_available
    /\ xpc' = "loop"
    /\ UNCHANGED <<besides_xfa, follower, follow_goal, max_refreshes, max_follows_per_page,
                   follows_completed, refresh_count, results_status,
                   consecutive_empty_refreshes, follows_this_page, more_available,
                   page_left, round_follows, last_rounds, refresh_failed>>

\* if not more_available: _refresh_page and what run does with its result
XRefresh(ok) ==
    /\ xpc = "after_page"
    /\ ~more_available
    /\ refresh_count' = refresh_count + 1
    /\ IF ~ok
       THEN /\ results_status' = "Failed - Refresh Error"
            /\ refresh_failed' = TRUE
            /\ xpc' = "final"
            /\ UNCHANGED consecutive_empty_refreshes
       ELSE LET empty == IF follows_this_page = 0
                         THEN consecutive_empty_refreshes + 1 ELSE 0
            IN  /\ consecutive_empty_refreshes' = empty
                /\ IF empty >= EmptyRefreshLimit
                   THEN /\ results_status' = "Completed - No More Targets"
                        /\ xpc' = "final"
                   ELSE /\ xpc' = "loop"
                        /\ UNCHANGED results_status
                /\ UNCHANGED refresh_failed
    /\ UNCHANGED <<besides_xfa, follower, follow_goal, max_refreshes, max_follows_per_page,
                   follows_completed, follows_this_page, more_available, page_left,
                   round_follows, last_rounds>>

\* Phase 4: "Determine final status"
XFinalStatus ==
    /\ xpc = "final"
    /\ results_status' =
          IF follows_completed >= follow_goal THEN "Completed - Goal Reached"
          ELSE IF refresh_count >= max_refreshes THEN "Completed - Refresh Limit Reached"
          ELSE results_status
    /\ xpc' = "done"
    /\ UNCHANGED <<besides_xfa, follower, follow_goal, max_refreshes, max_follows_per_page,
                   follows_completed, refresh_count, consecutive_empty_refreshes,
                   follows_this_page, more_available, page_left, round_follows,
                   last_rounds, refresh_failed>>

NextXfa ==
    \/ \E ok \in BOOLEAN : XNavigate(ok)
    \/ XLoopTest
    \/ XStartFollow
    \/ \E r \in {"success", "nothing", "exception"} : XFollowResult(r)
    \/ \E ok \in BOOLEAN : XScroll(ok)
    \/ XContinue
    \/ \E ok \in BOOLEAN : XRefresh(ok)
    \/ XFinalStatus

SpecXfa == InitXfa /\ [][NextXfa]_vars

----------------------------------------------------------------------------
(* TwitterBrowserSession (twitter_api.py:232-267) as its callers use it: a  *)
(* session object is made for one `async with` and the sessions of a        *)
(* program run follow one another.                                          *)

InitSessions ==
    /\ FollowerIdle
    /\ LoadingDone
    /\ XfaIdle
    /\ SessionsIdle
    /\ DataIdle
    /\ RaceIdle

\* the session of the `async with` being executed, if any
InSession == sessions # <<>> /\ sessions[Len(sessions)].at # "exited"

\* Browser(): a new object
NewBrowser == CHOOSE b \in Browsers :
                 /\ browser_state[b] = "absent"
                 /\ \A c \in Browsers : browser_state[c] = "absent" => b <= c

\* browser = Browser() in the caller (twitter_api.py:908,
\* twitter_follower_automation.py)
CallerBrowser ==
    /\ ~InSession
    /\ \E b \in Browsers : browser_state[b] = "absent"
    /\ browser_state' = [browser_state EXCEPT ![NewBrowser] = "open"]
    /\ browser_owner' = [browser_owner EXCEPT ![NewBrowser] = "caller"]
    /\ UNCHANGED <<besides_tbs, follower, session_closes, sessions>>

\* every session closes the browser it holds
ShouldCloseAlways(browser) == TRUE

\* self.should_close_browser = browser is None
ShouldClose(browser) == browser = None

\* TwitterBrowserSession(config, browser=..., browser_context=...)
SessionInit(browser, given_context) ==
    /\ ~InSession
    /\ Len(sessions) < MaxSessions
    /\ browser # None => browser_owner[browser] = "caller" /\ browser_state[browser] = "open"
    /\ sessions' = Append(sessions,
                          [browser |-> browser,
                           given |-> browser,
                           context |-> IF given_context THEN "given" ELSE "none",
                           should_close_browser |-> ShouldClose(browser),
                           at |-> "constructed",
                           exc |-> FALSE])
    /\ UNCHANGED <<besides_tbs, follower, browser_state, browser_owner, session_closes>>

\* __aenter__
AEnter ==
    /\ InSession
    /\ LET n == Len(sessions)
           s == sessions[n]
       IN  /\ s.at = "constructed"
           /\ s.browser = None => \E b \in Browsers : browser_state[b] = "absent"
           /\ IF s.browser = None
              THEN /\ browser_state' = [browser_state EXCEPT ![NewBrowser] = "open"]
                   /\ browser_owner' = [browser_owner EXCEPT ![NewBrowser] = "session"]
              ELSE UNCHANGED <<browser_state, browser_owner>>
           /\ sessions' = [sessions EXCEPT ![n] =
                 [s EXCEPT !.browser = IF s.browser = None THEN NewBrowser ELSE s.browser,
                           !.context = IF s.context = "none" THEN "created" ELSE s.context,
                           !.at = "entered"]]
    /\ UNCHANGED <<besides_tbs, follower, session_closes>>

\* the body of the `async with` returns or raises
Body(raises) ==
    /\ InSession
    /\ LET n == Len(sessions)
       IN  /\ sessions[n].at = "entered"
           /\ sessions' = [sessions EXCEPT ![n].at = "exiting", ![n].exc = raises]
    /\ UNCHANGED <<besides_tbs, follower, browser_state, browser_owner, session_closes>>

\* __aexit__
AExit ==
    /\ InSession
    /\ LET n == Len(sessions)
           s == sessions[n]
       IN  /\ s.at = "exiting"
           /\ IF s.should_close_browser /\ s.browser # None
              THEN /\ browser_state' = [browser_state EXCEPT ![s.browser] = "closed"]
                   /\ session_closes' = [session_closes EXCEPT ![s.browser] = @ + 1]
              ELSE UNCHANGED <<browser_state, session_closes>>
           /\ sessions' = [sessions EXCEPT ![n].at = "exited"]
    /\ UNCHANGED <<besides_tbs, follower, browser_owner>>

\* finally: await browser.close() in the caller
CallerClose(browser) ==
    /\ ~InSession
    /\ browser_owner[browser] = "caller"
    /\ browser_state[browser] = "open"
    /\ browser_state' = [browser_state EXCEPT ![browser] = "closed"]
    /\ UNCHANGED <<besides_tbs, follower, browser_owner, session_closes, sessions>>

NextSessions ==
    \/ CallerBrowser
    \/ \E b \in Browsers \cup {None}, c \in BOOLEAN : SessionInit(b, c)
    \/ AEnter
    \/ \E raises \in BOOLEAN : Body(raises)
    \/ AExit
    \/ \E b \in Browsers : CallerClose(b)

SpecSessions == InitSessions /\ [][NextSessions]_vars

----------------------------------------------------------------------------
(* get_data.py: executor.map(process_user_batch, batches) on a pool of      *)
(* max_workers threads.  An item is a record of its id and of the batch it  *)
(* was returned for (0: it was in the file before the run); every item has  *)
(* an id, and reading and writing the file succeed.                         *)

Item(i, b) == [id |-> i, from |-> b]

\* what the file may hold before the run
StoredBefore == {<<>>, <<Item(1, 0)>>, <<Item(2, 0), Item(1, 0)>>}

\* what the API may return for batch b
Returned(b) == {<<>>} \cup {<<Item(i, b)>> : i \in Ids}
                      \cup {<<Item(i, b), Item(j, b)>> : i, j \in Ids}

InitData ==
    /\ FollowerIdle
    /\ LoadingDone
    /\ XfaIdle
    /\ SessionsIdle
    /\ RaceIdle
    /\ saved_tweets \in StoredBefore
    /\ file_lock = None
    /\ batch_at = [b \in Batches |-> "queued"]
    /\ new_data = [b \in Batches |-> <<>>]
    /\ existing_dict = [b \in Batches |-> <<>>]
    /\ writes = <<>>

\* existing_dict[item_id] = item on a dict kept in insertion order: an item
\* with the id of a stored one takes its place, a new id goes to the end
RECURSIVE Put(_, _)
Put(dict, item) ==
    IF dict = <<>> THEN <<item>>
    ELSE IF Head(dict).id = item.id THEN <<item>> \o Tail(dict)
    ELSE <<Head(dict)>> \o Put(Tail(dict), item)

\* the dict comprehension and the merge loop: the items put one by one
RECURSIVE PutAll(_, _)
PutAll(dict, items) ==
    IF items = <<>> THEN dict
    ELSE PutAll(Put(dict, Head(items)), Tail(items))

\* a worker thread of the pool takes the batch
Take(b) ==
    /\ batch_at[b] = "queued"
    /\ Cardinality({c \in Batches : batch_at[c] \notin {"queued", "done"}}) < max_workers
    /\ batch_at' = [batch_at EXCEPT ![b] = "requested"]
    /\ UNCHANGED <<besides_data, follower, saved_tweets, file_lock, new_data,
                   existing_dict, writes>>

\* the requests up to `if not new_data: return`
Receive(b, items) ==
    /\ batch_at[b] = "requested"
    /\ new_data' = [new_data EXCEPT ![b] = items]
    /\ batch_at' = [batch_at EXCEPT ![b] = IF items = <<>> THEN "done" ELSE "received"]
    /\ UNCHANGED <<besides_data, follower, saved_tweets, file_lock, existing_dict, writes>>

\* the file is taken without the lock
LockFreeAlways == TRUE

\* threading.Lock: free when no thread holds it
LockFree == file_lock = None

\* with file_lock:
Acquire(b) ==
    /\ batch_at[b] = "received"
    /\ LockFree
    /\ file_lock' = b
    /\ batch_at' = [batch_at EXCEPT ![b] = "locked"]
    /\ UNCHANGED <<besides_data, follower, saved_tweets, new_data, existing_dict, writes>>

\* existing_data = json.loads(...) and the lookup dictionary made of it
ReadFile(b) ==
    /\ batch_at[b] = "locked"
    /\ existing_dict' = [existing_dict EXCEPT ![b] = PutAll(<<>>, saved_tweets)]
    /\ batch_at' = [batch_at EXCEPT ![b] = "read"]
    /\ UNCHANGED <<besides_data, follower, saved_tweets, file_lock, new_data, writes>>

\* for item in new_data: existing_dict[item_id] = item
Merge(b) ==
    /\ batch_at[b] = "read"
    /\ existing_dict' = [existing_dict EXCEPT ![b] = PutAll(@, new_data[b])]
    /\ batch_at' = [batch_at EXCEPT ![b] = "merged"]
    /\ UNCHANGED <<besides_data, follower, saved_tweets, file_lock, new_data, writes>>

\* json.dump(merged_data, json_file) and the end of the with block
WriteFile(b) ==
    /\ batch_at[b] = "merged"
    /\ saved_tweets' = existing_dict[b]
    /\ writes' = Append(writes, b)
    /\ file_lock' = IF file_lock = b THEN None ELSE file_lock
    /\ batch_at' = [batch_at EXCEPT ![b] = "done"]
    /\ UNCHANGED <<besides_data, follower, new_data, existing_dict>>

NextData ==
    \/ \E b \in Batches : Take(b)
    \/ \E b \in Batches : \E items \in Returned(b) : Receive(b, items)
    \/ \E b \in Batches : Acquire(b)
    \/ \E b \in Batches : ReadFile(b)
    \/ \E b \in Batches : Merge(b)
    \/ \E b \in Batches : WriteFile(b)

SpecData == InitData /\ [][NextData]_vars

----------------------------------------------------------------------------
(* Coroutines of one event loop that call follow_user on the same follower  *)
(* (get_follower / get_twikit_follower return the module's one instance).   *)
(* _check_rate_limits and _wait_between_follows sleep with time.sleep and   *)
(* hold the loop; the only await of follow_user is the one of the action,   *)
(* so a coroutine runs from its call to that await, and from the action's   *)
(* result to its return, with no other coroutine in between.                *)

InitRace ==
    /\ variant \in {"TwitterFollower", "TwikitFollower"}
    /\ follows_per_minute \in 1..MaxQuota
    /\ follows_per_day \in 1..MaxQuota
    /\ delay_between_follows \in Delays
    /\ now \in StartTimes
    /\ users_to_follow = <<>>
    /\ collected = users_to_follow
    /\ Constructed
    /\ OthersIdle

\* the event loop is free: every coroutine is suspended in an await or has
\* not started or has returned
LoopFree == \A c \in Coroutines : co_at[c] \in {"new", "awaiting", "returned"}

\* follow_user is called
CoCall(c) ==
    /\ LoopFree
    /\ co_at[c] \in {"new", "returned"}
    /\ co_calls[c] < MaxCoCalls
    /\ co_at' = [co_at EXCEPT ![c] = "check"]
    /\ co_calls' = [co_calls EXCEPT ![c] = @ + 1]
    /\ UNCHANGED <<besides_race, tracker, now>>

\* one pass of _check_rate_limits; a minute wait is time.sleep(wait_time + 1)
\* and the check again
CoCheck(c, o) ==
    /\ co_at[c] = "check"
    /\ LET today == IF DayResetDue(now) THEN 0 ELSE follows_today
           day_end == IF DayResetDue(now) THEN NextMidnight(now) ELSE day_reset_time
           this_minute == IF MinuteResetDue(now) THEN 0 ELSE follows_this_minute
           minute_end == IF MinuteResetDue(now) THEN NextMinute(now) ELSE minute_reset_time
           verdict == CheckVerdict(today, this_minute)
       IN  /\ follows_today' = today
           /\ day_reset_time' = day_end
           /\ follows_this_minute' = this_minute
           /\ minute_reset_time' = minute_end
           /\ CASE verdict = "denied" ->
                     /\ co_at' = [co_at EXCEPT ![c] = "returned"]
                     /\ UNCHANGED now
                [] verdict = "wait" ->
                     /\ now' = now + (minute_end - now) + Buffer + o
                     /\ UNCHANGED co_at
                [] verdict = "granted" ->
                     /\ co_at' = [co_at EXCEPT ![c] = "spacing"]
                     /\ UNCHANGED now
    /\ UNCHANGED <<besides_race, last_follow_time, co_calls>>

\* _wait_between_follows, then the action is awaited
CoWaitBetweenFollows(c) ==
    /\ co_at[c] = "spacing"
    /\ \E j \in Jitters : now' = now + SpacingWait(j)
    /\ co_at' = [co_at EXCEPT ![c] = "awaiting"]
    /\ UNCHANGED <<besides_race, tracker, co_calls>>

\* the action returns d seconds later and follow_user runs to its return
CoPerformed(c, d, success) ==
    /\ LoopFree
    /\ co_at[c] = "awaiting"
    /\ now' = now + d
    /\ IF success
       THEN /\ follows_today' = follows_today + 1
            /\ follows_this_minute' = follows_this_minute + 1
            /\ last_follow_time' = now'
       ELSE UNCHANGED <<follows_today, follows_this_minute, last_follow_time>>
    /\ co_at' = [co_at EXCEPT ![c] = "returned"]
    /\ UNCHANGED <<besides_race, minute_reset_time, day_reset_time, co_calls>>

NextRace ==
    \/ \E c \in Coroutines : CoCall(c)
    \/ \E c \in Coroutines : \E o \in Oversleep : CoCheck(c, o)
    \/ \E c \in Coroutines : CoWaitBetweenFollows(c)
    \/ \E c \in Coroutines : \E d \in Elapse : \E success \in BOOLEAN :
          CoPerformed(c, d, success)

SpecRace == InitRace /\ [][NextRace]_vars
----------------------------------------------------------------------------
(* Properties *)

\* follow_log entries admitted from time t on and done before t + w
WithinWindow(t, w) ==
    {j \in DOMAIN follow_log :
        follow_log[j].admitted >= t /\ follow_log[j].done < t + w}

\* follow_log entries admitted from time t on and before t + w
AdmittedWithin(t, w) ==
    {j \in DOMAIN follow_log :
        follow_log[j].admitted >= t /\ follow_log[j].admitted < t + w}

\* follow_log entries admitted in the clock minute / calendar day of entry i
SameMinute(i) ==
    {j \in DOMAIN follow_log :
        follow_log[j].admitted \div Minute = follow_log[i].admitted \div Minute}

SameDay(i) ==
    {j \in DOMAIN follow_log :
        follow_log[j].admitted \div Day = follow_log[i].admitted \div Day}

\* the daily counter one pass of the check tests, after its reset step
TodayAtCheck == IF DayResetDue(now) THEN 0 ELSE follows_today

ThisMinuteAtCheck == IF MinuteResetDue(now) THEN 0 ELSE follows_this_minute

\* the step is a performer call that reported success
SuccessStep ==
    /\ performer_calls' = performer_calls + 1
    /\ performer_fails' = performer_fails

\* C1: in a sequential run the counters are never above their quotas: not
\* after a granted admission, not after post-action accounting, not in any
\* other state.
QuotaNeverExceeded ==
    /\ follows_today <= follows_per_day
    /\ follows_this_minute <= follows_per_minute

\* C1 witness: accounting of a success has just filled both quotas.
QuotaFilledByAccounting ==
    /\ outcome = "succeeded"
    /\ follows_per_day > 0
    /\ follows_today = follows_per_day
    /\ follows_this_minute = follows_per_minute

\* C2 as stated: no rolling 60-second window holds more than
\* follows_per_minute admitted, successful actions.
RollingMinuteQuota ==
    \A i \in DOMAIN follow_log :
        Cardinality(WithinWindow(follow_log[i].admitted, Minute)) <= follows_per_minute

\* C2 amended: the successful actions admitted within one clock minute (one
\* per-minute window of the tracker) number at most follows_per_minute; a
\* rolling 60-second window, which can straddle a minute boundary, holds at
\* most twice that many admissions.
ClockMinuteQuota ==
    \A i \in DOMAIN follow_log :
        /\ Cardinality(SameMinute(i)) <= follows_per_minute
        /\ Cardinality(AdmittedWithin(follow_log[i].admitted, Minute))
              <= 2 * follows_per_minute

\* C2 witness: more than follows_per_minute successful actions were admitted
\* and done within 60 seconds, across a minute boundary.
MoreThanQuotaWithinSixtySeconds ==
    \E i \in DOMAIN follow_log :
        /\ Cardinality(WithinWindow(follow_log[i].admitted, Minute)) > follows_per_minute
        /\ Cardinality(SameMinute(i)) = follows_per_minute

\* C3 as stated: no 24-hour window, midnight inside it or not, holds more
\* than follows_per_day admitted, successful actions.
RollingDayQuota ==
    \A i \in DOMAIN follow_log :
        Cardinality(WithinWindow(follow_log[i].admitted, Day)) <= follows_per_day

\* C3 amended: the successful actions admitted within one calendar day
\* (midnight to midnight) number at most follows_per_day; a 24-hour window
\* that straddles midnight holds at most twice that many admissions.
CalendarDayQuota ==
    \A i \in DOMAIN follow_log :
        /\ Cardinality(SameDay(i)) <= follows_per_day
        /\ Cardinality(AdmittedWithin(follow_log[i].admitted, Day))
              <= 2 * follows_per_day

\* C3 witness: more than follows_per_day successful actions within 24 hours,
\* the day before midnight having used its whole quota.
MoreThanQuotaAcrossMidnight ==
    \E i \in DOMAIN follow_log :
        /\ Cardinality(WithinWindow(follow_log[i].admitted, Day)) > follows_per_day
        /\ Cardinality(SameDay(i)) = follows_per_day

\* C4: a failed attempt leaves follows_today, follows_this_minute and
\* last_follow_time as they were before the performer was called; hence a
\* batch of N requests in which the performer never succeeds (and no request
\* is turned away by the daily cap) ends with follows_today = 0, failed = N
\* and followed = 0.
FailureConsumesNoQuota ==
    /\ outcome = "failed" =>
          <<follows_today, follows_this_minute, last_follow_time>> = pre_action
    /\ (pc = "batch_done" /\ performer_fails = performer_calls
                          /\ daily_denied_until = None) =>
          /\ follows_today = 0
          /\ batch_result.failed = submitted
          /\ batch_result.followed = 0

\* C5: a step in which the performer reports success adds exactly 1 to
\* follows_today and to follows_this_minute and sets last_follow_time to the
\* time it ends; no other step increases either counter.
SuccessAccountedOnce ==
    [][ /\ SuccessStep =>
            /\ follows_today' = follows_today + 1
            /\ follows_this_minute' = follows_this_minute + 1
            /\ last_follow_time' = now'
        /\ (follows_today' > follows_today \/ follows_this_minute' > follows_this_minute)
              => SuccessStep ]_vars

\* C5 witness: a success has just been accounted.
SuccessJustAccounted ==
    /\ outcome = "succeeded"
    /\ follows_today = pre_action[1] + 1
    /\ follows_this_minute = pre_action[2] + 1
    /\ last_follow_time = now

\* C6: a check that finds follows_today >= follows_per_day returns denied at
\* once: the clock does not move, no rate-limit sleep is entered, and a denied
\* request has had no rate-limit sleep and no spacing sleep, also when the
\* per-minute counter is at its quota too.
DailyCapIsHardStop ==
    /\ [](outcome = "denied" => rl_sleeps = 0 /\ sp_sleeps = 0)
    /\ [][ (pc = "check" /\ TodayAtCheck >= follows_per_day) =>
              /\ outcome' = "denied"
              /\ now' = now
              /\ pc' \notin {"rl_sleep", "spacing", "acting"} ]_vars

\* C6 witness: a request was denied with both counters at their quotas.
DeniedWithBothQuotasFull ==
    /\ outcome = "denied"
    /\ follows_per_day > 0
    /\ follows_today >= follows_per_day
    /\ follows_this_minute >= follows_per_minute

\* C7: with follows_per_day = q, R > q requests and a performer that always
\* succeeds, the batch returns followed = q, skipped = R - q, failed = 0 and
\* has called the performer q times.
DailyExhaustionSkipsRest ==
    (pc = "batch_done" /\ performer_fails = 0 /\ submitted > follows_per_day) =>
        /\ batch_result.followed = follows_per_day
        /\ batch_result.skipped = submitted - follows_per_day
        /\ batch_result.failed = 0
        /\ performer_calls = follows_per_day

\* C8 as stated: once a check has denied on the daily cap, no later check of
\* the run grants.
DailyDenialPermanent == daily_denied_until = None \/ admit_time = None

\* C8 amended: once a check has denied on the daily cap, every later check
\* made before day_reset_time (the next midnight) denies too; a check at or
\* after it resets follows_today and can grant.
DailyDenialUntilMidnight ==
    (daily_denied_until # None /\ admit_time # None) => admit_time >= daily_denied_until

\* C8 witness: a request was granted after an earlier one was denied on the
\* daily cap.
GrantedAfterDailyDenial ==
    /\ daily_denied_until # None
    /\ admit_time # None
    /\ follows_per_day > 0

\* C9: a check that finds the per-minute quota used (and the daily cap not
\* reached) sleeps (minute_reset_time - now) + 1 seconds and runs the whole
\* check again; no request is denied on the per-minute quota alone; the check
\* after the sleep grants or denies, it does not wait again.
MinuteCapWaitsThenGrants ==
    [][ /\ (pc = "check" /\ TodayAtCheck < follows_per_day
                        /\ ThisMinuteAtCheck >= follows_per_minute) =>
              /\ pc' = "rl_sleep"
              /\ wait_time' + Buffer = (minute_reset_time' - now) + 1
        /\ pc = "rl_sleep" => pc' = "check"
        /\ (outcome # "denied" /\ outcome' = "denied") => follows_today' >= follows_per_day
        /\ (pc = "check" /\ rl_sleeps > 0) => pc' # "rl_sleep" ]_vars

\* C10 as stated: a check that resets the per-minute window sets
\* follows_this_minute to 0 and minute_reset_time to now + 60 seconds.
MinuteWindowSixtyFromNow ==
    [][ (pc = "check" /\ MinuteResetDue(now)) =>
            /\ follows_this_minute' = 0
            /\ minute_reset_time' = now + Minute ]_vars

\* C10 amended: a check that resets the per-minute window sets
\* follows_this_minute to 0 and minute_reset_time to the start of the next
\* clock minute: a whole minute, after now and at most 60 seconds after it.
MinuteWindowEndsAtNextMinute ==
    [][ (pc = "check" /\ MinuteResetDue(now)) =>
            /\ follows_this_minute' = 0
            /\ minute_reset_time' % Minute = 0
            /\ minute_reset_time' > now
            /\ minute_reset_time' <= now + Minute ]_vars

\* C10 witness: the window was reset in the middle of a clock minute and ends
\* less than 60 seconds after the reset.
MinuteWindowShorterThanSixty ==
    /\ minute_reset_at # None
    /\ minute_reset_time > minute_reset_at
    /\ minute_reset_time - minute_reset_at < Minute

\* C11: of two consecutive successful follows of one follower, the second
\* sets last_follow_time at least delay_between_follows seconds after the
\* first did, whatever jitter is drawn and however long the performer, the
\* caller and the rate-limit sleeps take.
SpacingKept ==
    \A i \in 1..(Len(follow_log) - 1) :
        follow_log[i + 1].done - follow_log[i].done >= delay_between_follows

\* C11 witness: a follow succeeded after a spacing sleep, exactly
\* delay_between_follows seconds after the one before it.
SpacedByExactlyTheDelay ==
    /\ Len(follow_log) >= 2
    /\ delay_between_follows > 0
    /\ outcome = "succeeded"
    /\ sp_sleeps > 0
    /\ follow_log[Len(follow_log)].done - follow_log[Len(follow_log) - 1].done
         = delay_between_follows

\* the sleep of a spacing step that aims at delay_between_follows + j
TargetWait(j) ==
    LET elapsed == now - last_follow_time
        target_delay == delay_between_follows + j
    IN  IF elapsed < target_delay THEN target_delay - elapsed ELSE 0

\* a spacing step that aims at delay_between_follows + j
SpacingStepWith(j) == WaitBetweenFollows /\ now' = now + TargetWait(j)

\* C12 as stated: in both classes the spacing step, when last_follow_time is
\* set, can draw every jitter j of [0, JitterMax] and then suspends for
\* delay_between_follows + j - elapsed exactly when that is positive: no
\* class waits for the fixed delay alone.
JitterInEveryVariant ==
    (pc = "spacing" /\ last_follow_time # None) =>
        \A j \in 0..JitterMax : ENABLED SpacingStepWith(j)

\* the jitters a class draws from: TwikitFollower random.uniform(0, 2),
\* TwitterFollower none
DrawnJitters == IF variant = "TwikitFollower" THEN 0..JitterMax ELSE {0}

\* C12 amended: the spacing step of TwikitFollower aims at
\* delay_between_follows + j with j drawn from [0, 2], that of
\* TwitterFollower at delay_between_follows alone; when last_follow_time is
\* set the step suspends for target - elapsed exactly when elapsed < target,
\* and it does not suspend at all when last_follow_time is not set.
JitterInTwikitOnly ==
    /\ []((pc = "spacing" /\ last_follow_time # None) =>
            \A j \in DrawnJitters : ENABLED SpacingStepWith(j))
    /\ [][ pc = "spacing" =>
              IF last_follow_time = None THEN now' = now
              ELSE \E j \in DrawnJitters : now' = now + TargetWait(j) ]_vars

\* C12 witness: TwikitFollower has slept in the spacing step for the delay
\* and the largest jitter.
SleptForDelayAndJitter ==
    /\ pc = "acting"
    /\ variant = "TwikitFollower"
    /\ sp_sleeps > 0
    /\ last_follow_time # None
    /\ now - last_follow_time = delay_between_follows + JitterMax

\* the pending users that are not followed yet
PendingEligible ==
    {i \in DOMAIN users_to_follow : users_to_follow[i].id \notin followed_users}

\* C13 as stated: follow_collected_users(max_users = k) on at least k
\* collected users returns only when k follows have succeeded, or no pending
\* user is left to attempt, or the daily cap has denied a request.
CapCountsSuccesses ==
    (pc = "batch_done" /\ max_users # None /\ Len(collected) >= max_users) =>
        \/ batch_result.followed = max_users
        \/ PendingEligible = {}
        \/ daily_denied_until # None

\* C13 amended: max_users = k caps the attempts: only the first k collected
\* users are attempted, at most k performer calls are made, followed + failed
\* never exceeds k, and every collected user after the k-th stays in
\* users_to_follow; a failed attempt is not made up for by a further user.
CapCountsAttempts ==
    max_users # None =>
        /\ Len(attempted) <= max_users
        /\ \A i \in DOMAIN attempted :
               \E n \in 1..max_users : n <= Len(collected) /\ collected[n] = attempted[i]
        /\ \A n \in (max_users + 1)..Len(collected) : InList(users_to_follow, collected[n])
        /\ followed + failed <= max_users

\* C13 witness: a batch with max_users = k returned with fewer than k follows
\* after a performer failure, no daily denial, and users still pending.
FailureNotMadeUpFor ==
    /\ pc = "batch_done"
    /\ max_users # None
    /\ max_users >= 1
    /\ Len(collected) > max_users
    /\ performer_fails > 0
    /\ batch_result.followed < max_users
    /\ daily_denied_until = None
    /\ PendingEligible # {}

\* the first k collected users are k different accounts
DistinctIds(k) ==
    \A i, j \in 1..k : i # j => collected[i].id # collected[j].id

FailureDoesNotAbort ==
    (pc = "batch_done" /\ performer_fails > 0 /\ daily_denied_until = None) =>
        /\ batch_result.failed = performer_fails
        /\ batch_result.followed = performer_calls - performer_fails
        /\ \A i \in 1..submitted :
               collected[i].id \in followed_users \/ InList(attempted, collected[i])

\* performer calls made for request r
Attempts(r) == Cardinality({i \in DOMAIN attempted : attempted[i] = r})

\* C16: within one batch the performer is called at most once for a request,
\* also for one whose follow failed and although max_attempts is larger than
\* one; and between the return of one request and the admission check of the
\* next the clock does not move: nothing sleeps for delay_on_error.
AtMostOncePerRequest ==
    /\ [](\A i \in DOMAIN collected :
            Attempts(collected[i]) <= 1 /\ Attempts(collected[i]) < max_attempts)
    /\ [][ (pc = "loop" /\ delay_on_error > 0) => now' = now ]_vars

\* C16 witness: a batch has returned after a failed attempt and a later
\* attempt, with max_attempts larger than one.
FailedRequestNotRetried ==
    /\ pc = "batch_done"
    /\ max_attempts > 1
    /\ performer_fails > 0
    /\ Len(attempted) >= 2
    /\ Attempts(attempted[1]) = 1

\* C17: when follow_collected_users() (max_users unset) has returned and the
\* daily cap denied no request, every collected user that was not followed
\* already when its turn came is gone from users_to_follow and the performer
\* was called for it exactly once, whatever mix of successes and failures
\* the performer reported.
ConsumedExactlyOnce ==
    (pc = "batch_done" /\ max_users = None /\ daily_denied_until = None) =>
        \A i \in DOMAIN collected :
            (collected[i].id \notin followed_users \/ InList(attempted, collected[i])) =>
                /\ ~InList(users_to_follow, collected[i])
                /\ Attempts(collected[i]) = 1

\* C18: the result of a batch accounts for every submitted request:
\* followed + failed + skipped is the number of requests submitted (all
\* pending users, or the first max_users of them) and no count is negative.
FullAccounting ==
    pc = "batch_done" =>
        /\ batch_result.followed + batch_result.failed + batch_result.skipped = submitted
        /\ batch_result.followed >= 0
        /\ batch_result.failed >= 0
        /\ batch_result.skipped >= 0

\* a follow_user call has started and not returned
RequestInProgress == pc \in {"check", "rl_sleep", "spacing", "acting", "raised"}

AdmissionAlwaysReturns == pc # "raised"

\* the scenario has run to its end
E2EDone == calls = E2ERequests /\ pc = "idle"

\* the follows of the scenario made on the day the clock is in
FollowsOfToday ==
    {k \in DOMAIN follow_log : follow_log[k].done \div Day = now \div Day}

\* the follower slept before follow k exactly when follow k - 1 filled a
\* per-minute window
E2EWaitPattern ==
    /\ Len(follow_log) = E2ERequests
    /\ \A k \in 2..E2ERequests :
           (follow_log[k].done > follow_log[k - 1].done) <=> ((k - 1) % E2EPerMinute = 0)
    /\ now = follow_log[E2ERequests].done

\* C21 as stated: in the scenario (per-minute quota 2, daily quota 5, 5
\* requests) all requests succeed, the follower sleeps on the per-minute
\* quota exactly before the 3rd and the 5th, not after the 5th, and ends
\* with follows_today equal to the number of requests.
E2EAllCountedToday ==
    E2EDone => E2EWaitPattern /\ follows_today = E2ERequests

\* C21 amended: in the scenario all requests succeed, the follower sleeps on
\* the per-minute quota exactly before the 3rd and the 5th request, once
\* each, and not after the 5th; follows_today ends as the number of follows
\* made since the last midnight: 5 when no sleep carried the run over
\* midnight, fewer otherwise.
E2ECountedSinceMidnight ==
    /\ rl_sleeps <= 1
    /\ E2EDone => E2EWaitPattern /\ follows_today = Cardinality(FollowsOfToday)

\* C21 witness: the scenario has ended after a sleep that crossed midnight.
E2EEndedAfterMidnight ==
    /\ E2EDone
    /\ Len(follow_log) = E2ERequests
    /\ follow_log[1].done \div Day < now \div Day
    /\ follows_today < E2ERequests

\* C22: get_follow_status changes no field of the tracker, of the targets,
\* of users_to_follow or of followed_users, and every snapshot returned
\* since the last action holds the current counters, the configured quotas
\* and the current list sizes: two calls in a row return the same snapshot.
StatusReadIsPure ==
    /\ [](\A i \in DOMAIN statuses :
            /\ statuses[i].rate_limits.follows_today = follows_today
            /\ statuses[i].rate_limits.follows_this_minute = follows_this_minute
            /\ statuses[i].rate_limits.follows_per_day = follows_per_day
            /\ statuses[i].rate_limits.follows_per_minute = follows_per_minute
            /\ statuses[i].rate_limits.delay_between_follows = delay_between_follows
            /\ statuses[i].users_to_follow_count = Len(users_to_follow)
            /\ statuses[i].total_followed_count = Cardinality(followed_users)
            /\ \A t \in Targets : statuses[i].targets[t] = Cardinality(target_followed[t])
            /\ statuses[i] = statuses[1])
    /\ [][ Len(statuses') > Len(statuses) =>
              UNCHANGED <<config, tracker, twikit, now, pc, batch>> ]_vars

\* C22 witness: after a batch that followed some users and left some
\* pending, get_follow_status was called twice in a row.
StatusReadTwiceAfterBatch ==
    /\ pc = "batch_done"
    /\ Len(statuses) = 2
    /\ follows_today > 0
    /\ users_to_follow # <<>>
    /\ followed_users # {}

\* C23: an instance exists only when config.json was there and was JSON,
\* held every quota key, and held a positive value for each: every other
\* configuration ends construction in an error.
ConfigFailsFast ==
    construction = "instance" =>
        /\ config_file = "parsed"
        /\ cfg_keys = ConfigKeys
        /\ follows_per_minute > 0
        /\ follows_per_day > 0
        /\ delay_between_follows > 0

\* C24: in every state of a run 0 <= follows_completed <= follow_goal, and
\* the follow agent is at work only while follows_completed < follow_goal.
GoalNeverExceeded ==
    /\ 0 <= follows_completed
    /\ follows_completed <= follow_goal
    /\ xpc = "following" => follows_completed < follow_goal

\* C24 witness: the goal has been reached after a round that made follows and
\* a round that made none.
GoalReachedInSecondRound ==
    /\ xpc = "done"
    /\ follow_goal = XMaxGoal
    /\ follows_completed = follow_goal
    /\ refresh_count > 0
    /\ results_status = "Completed - Goal Reached"

\* C25: the stop with "No More Targets" is taken only when each of the three
\* most recent page-processing rounds completed zero follows.
StopOnlyAfterThreeEmptyRounds ==
    results_status = "Completed - No More Targets" =>
        /\ Len(last_rounds) = EmptyRefreshLimit
        /\ \A i \in 1..Len(last_rounds) : last_rounds[i] = 0

\* C26: when _refresh_page returned False, the run ends with the status
\* "Failed - Refresh Error".
FailedRefreshReported ==
    (xpc = "done" /\ refresh_failed) => results_status = "Failed - Refresh Error"

\* C27: a browser the caller passed in is never closed by a session, in a
\* normal exit or an exit by exception, and is as the caller left it when a
\* later session takes it; a browser a session created in __aenter__ has been
\* closed by that session exactly once when the session has exited, and not
\* before.
ClosesOnlyOwnBrowser ==
    /\ \A b \in Browsers : browser_owner[b] = "caller" => session_closes[b] = 0
    /\ \A i \in 1..Len(sessions) :
          LET s == sessions[i]
          IN  /\ s.given # None =>
                    /\ s.browser = s.given
                    /\ s.at # "exited" => browser_state[s.browser] = "open"
              /\ (s.given = None /\ s.at \in {"entered", "exiting"}) =>
                    /\ browser_owner[s.browser] = "session"
                    /\ browser_state[s.browser] = "open"
                    /\ session_closes[s.browser] = 0
              /\ (s.given = None /\ s.at = "exited") =>
                    /\ browser_state[s.browser] = "closed"
                    /\ session_closes[s.browser] = 1

\* C27 witness: a session left by an exception was followed by a session on
\* the same browser of the caller, which is still open, and a session that
\* made its own browser has exited.
BrowserReusedAfterException ==
    /\ Len(sessions) = 3
    /\ sessions[1].given # None /\ sessions[1].exc /\ sessions[1].at = "exited"
    /\ sessions[2].given = sessions[1].given /\ sessions[2].at = "exited"
    /\ browser_state[sessions[2].given] = "open"
    /\ sessions[3].given = None /\ sessions[3].at = "exited" /\ sessions[3].exc

\* the ids of the items of a list
IdsOf(items) == {items[k].id : k \in 1..Len(items)}

\* the last batch to write among those that returned an item with id i
LastWriterOf(i) ==
    LET ks == {k \in 1..Len(writes) : i \in IdsOf(new_data[writes[k]])}
    IN  IF ks = {} THEN 0
        ELSE writes[CHOOSE k \in ks : \A l \in ks : l <= k]

MinuteWithinDay ==
    /\ follows_this_minute <= follows_today
    /\ minute_reset_time # None =>
          /\ minute_reset_time % Minute = 0
          /\ day_reset_time # None
          /\ minute_reset_time <= day_reset_time
    /\ (ENABLED CheckRateLimits /\ DayResetDue(now)) => MinuteResetDue(now)

\* C29 witness: follows were counted before midnight, the check after
\* midnight has reset both counters, and a follow was counted since.
CountedAgainAfterMidnight ==
    /\ now >= Day
    /\ day_reset_time = 2 * Day
    /\ follows_this_minute = 1
    /\ follows_today = 1
    /\ Len(follow_log) >= 2

\* C30: with follow_user coroutines interleaved on the shared follower, each
\* suspended only while it awaits its action, neither counter is ever above
\* its quota.
QuotaKeptByCoroutines ==
    (\E c \in Coroutines : co_calls[c] > 0) =>
        /\ follows_this_minute <= follows_per_minute
        /\ follows_today <= follows_per_day

====
